---- MODULE Spec2Model ----
(***************************************************************************)
(* research-tool (src/main.rs): one run of the command-line client.        *)
(*                                                                         *)
(* Two threads of control exist on the multi-thread tokio runtime that     *)
(* #[tokio::main] builds: the future of `main` (program counter `pc`) and  *)
(* the spawned progress ticker (`timer`).  What is outside the process     *)
(* (argv, environment, dotenv files, stdin, the OpenRouter server) is      *)
(* chosen nondeterministically from small sets.                            *)
(***************************************************************************)
EXTENDS Integers, Sequences, FiniteSets, TLC

VARIABLES
    environ,     \* what the process reads at start-up: key sources, argv
    pc,          \* position of `main`
    args,        \* the fields of Args::parse() that are still to be read
    api_key,     \* `api_key` (line 238)
    query,       \* `query` (line 244)
    posted,      \* POST requests handed to the network, in order
    status,      \* `status` (line 319)
    text,        \* `text` (line 320)
    response,    \* `response` (line 341)
    err,         \* the anyhow error `main` is returning, if any
    timer,       \* the spawned ticker task of lines 297-305
    stdout,      \* writes to the primary stream, in order
    stderr,      \* writes to the diagnostic stream, in order
    exit_code    \* process exit status, once exited

vars == <<environ, pc, args, api_key, query, posted, status, text,
          response, err, timer, stdout, stderr, exit_code>>

(* ----------------------------- bounds ---------------------------------- *)

\* Largest number of positional tokens on the command line.
MaxArgs == 2
\* Largest number of 15-second intervals that elapse during one run.
MaxTicks == 1
\* Largest number of entries of `choices` beyond the first.
MaxExtraChoices == 1

(* --------------------------- Option<T> --------------------------------- *)

None == [some |-> FALSE]
Some(x) == [some |-> TRUE, v |-> x]

\* Option::or (line 355): the first operand when it is Some, whatever it holds.
OptionOr(a, b) == IF a.some THEN a ELSE b

(* ---------------------- text of queries -------------------------------- *)
(* A query string is a sequence of characters; " " is the whitespace.      *)

Chars == {"a", " "}
IsSpace(c) == c = " "

RECURSIVE TrimStart(_)
TrimStart(s) ==
    IF s = <<>> THEN <<>>
    ELSE IF IsSpace(Head(s)) THEN TrimStart(Tail(s)) ELSE s

RECURSIVE TrimEnd(_)
TrimEnd(s) ==
    IF s = <<>> THEN <<>>
    ELSE IF IsSpace(s[Len(s)]) THEN TrimEnd(SubSeq(s, 1, Len(s) - 1)) ELSE s

\* str::trim (line 247)
Trim(s) == TrimEnd(TrimStart(s))

\* [String]::join(" ") (line 255)
RECURSIVE Join(_)
Join(tokens) ==
    IF tokens = <<>> THEN <<>>
    ELSE IF Len(tokens) = 1 THEN tokens[1]
    ELSE tokens[1] \o <<" ">> \o Join(Tail(tokens))

(* --------------------- the process environment ------------------------- *)

\* A dotenv file: missing, present without the key, or present with it.
NoFile == [exists |-> FALSE]
FileWith(k) == [exists |-> TRUE, key |-> k]
DotenvFiles == {NoFile, FileWith(None), FileWith(Some("k_file"))}

\* One command-line token.
Tokens == {<<>>, <<"a">>}
RECURSIVE SeqsUpTo(_, _)
SeqsUpTo(S, n) ==
    IF n = 0 THEN {<<>>}
    ELSE LET shorter == SeqsUpTo(S, n - 1)
         IN  shorter \cup {Append(s, x) : s \in {t \in shorter : Len(t) = n - 1}, x \in S}

Environments ==
    [ flag_key : {None, Some("k_flag")},      \* --api-key
      env_key  : {None, Some("k_env")},       \* OPENROUTER_API_KEY
      cwd_env  : DotenvFiles,                 \* ./.env
      home_env : DotenvFiles,                 \* ~/.env
      stdin    : BOOLEAN,                     \* --stdin
      query    : SeqsUpTo(Tokens, MaxArgs) ]  \* positional tokens

Consumed == [read |-> TRUE]

\* What read_to_string can find on stdin: text, or bytes that are not UTF-8.
StdinInputs == {Some(<<>>), Some(<<" ">>), Some(<<"a">>), Some(<<" ", "a", " ">>), None}

\* Lines 226-234: the first of ./.env and ~/.env that exists is loaded and the
\* search stops; dotenvy does not override a variable that is already set.
LoadDotenv(e) ==
    LET file == IF e.cwd_env.exists THEN e.cwd_env
                ELSE IF e.home_env.exists THEN e.home_env
                ELSE NoFile
    IN  IF e.env_key.some THEN e.env_key
        ELSE IF file.exists THEN file.key
        ELSE None

\* ParsedApiKey with the missing key replaced by an empty one
\* (unwrap_or_default in place of the exit of lines 238-241).
ParsedApiKeyOrEmpty(e) ==
    IF e.flag_key.some THEN e.flag_key
    ELSE IF LoadDotenv(e).some THEN LoadDotenv(e)
    ELSE Some("")

\* Line 164 (#[arg(long, env = "OPENROUTER_API_KEY")]): the flag, else the
\* environment variable as it stands after the dotenv load.
ParsedApiKey(e) == IF e.flag_key.some THEN e.flag_key ELSE LoadDotenv(e)

(* ------------------- the server's answer: status ----------------------- *)

Statuses == {200, 201, 301, 401, 402, 429, 500}

\* StatusCode::is_success (line 324)
IsSuccess(s) == 200 <= s /\ s <= 299

(* ------------------- the server's answer: JSON ------------------------- *)
(* A JSON value as it stands in the body: a key can be absent, or carry    *)
(* null, a string, a number, an object or an array.                        *)

Absent == [t |-> "absent"]
Null == [t |-> "null"]
Str(s) == [t |-> "str", v |-> s]
Num(n) == [t |-> "num", v |-> n]
Obj(fields) == [t |-> "obj", v |-> fields]
Arr(items) == [t |-> "arr", v |-> items]
Malformed == [t |-> "malformed"]

JContents == {Absent, Null, Str(""), Str("Paris")}
JReasonings == {Absent, Null, Str(""), Str("r1")}
JReasoningContents == {Absent, Str(""), Str("r2")}

JMessage(c, r, rc) == Obj([content |-> c, reasoning |-> r, reasoning_content |-> rc])
JMessages ==
    {Absent, Null}
    \cup {JMessage(c, r, rc) : c \in JContents, r \in JReasonings, rc \in JReasoningContents}
JChoice(m) == Obj([message |-> m])
JOtherChoice == JChoice(JMessage(Str("Rome"), Str("r9"), Absent))

JUsageOk ==
    Obj([prompt_tokens |-> Num(10), completion_tokens |-> Num(2), total_tokens |-> Num(12)])
JUsageShort ==
    Obj([prompt_tokens |-> Num(10), completion_tokens |-> Absent, total_tokens |-> Num(12)])
JUsages == {Absent, Null, JUsageOk, JUsageShort}

JErrorOk == Obj([message |-> Str("boom")])
JErrorShort == Obj([message |-> Absent])
JErrors == {Absent, Null, JErrorOk, JErrorShort}

JDoc(ch, u, e) == Obj([choices |-> ch, usage |-> u, error |-> e])

RECURSIVE Repeat(_, _)
Repeat(x, n) == IF n = 0 THEN <<>> ELSE <<x>> \o Repeat(x, n - 1)

\* The first messages that are also sent with further choices after them.
JLeadMessages ==
    {Absent, JMessage(Absent, Str("r1"), Absent), JMessage(Str("Paris"), Absent, Str("r2"))}

JChoiceLists ==
    {Absent, Null, Arr(<<>>)}
    \cup {Arr(<<JChoice(m)>>) : m \in JMessages}
    \cup {Arr(<<JChoice(m)>> \o Repeat(JOtherChoice, n)) : m \in JLeadMessages, n \in 1..MaxExtraChoices}

ParisDoc == JDoc(Arr(<<JChoice(JMessage(Str("Paris"), Absent, Absent))>>), JUsageOk, Absent)

Docs ==
    {Malformed}
    \cup {JDoc(ch, u, Absent) : ch \in JChoiceLists, u \in {Absent, JUsageOk}}
    \cup {JDoc(ch, u, e) : ch \in {Absent, Arr(<<>>), ParisDoc.v.choices},
                           u \in JUsages, e \in JErrors}

(* ------------------- the server's answer: bytes ------------------------ *)
(* The body as UTF-8: `len` bytes, all one-byte characters except for at   *)
(* most one character of `width` bytes starting at byte offset `wide_at`.  *)

\* Line 344: the prefix of the body quoted in the parse-failure diagnostic.
PrefixLen == 200

Ascii(n) == [len |-> n, wide_at |-> -1, width |-> 1]
Wide(n, at, w) == [len |-> n, wide_at |-> at, width |-> w]

ShortLayout == Ascii(3)
LongLayouts ==
    { Ascii(PrefixLen + 5),
      Wide(PrefixLen + 5, PrefixLen - 2, 2),    \* a character ends at byte 200
      Wide(PrefixLen + 5, PrefixLen - 1, 2),    \* a character straddles byte 200
      Wide(PrefixLen + 5, PrefixLen - 2, 4) }

Body(layout, doc) == [layout |-> layout, doc |-> doc]

Bodies ==
    {Body(ShortLayout, d) : d \in Docs}
    \cup {Body(l, d) : l \in LongLayouts, d \in {Malformed, ParisDoc}}

\* The byte at offset k is a UTF-8 continuation byte.
IsContinuation(l, k) == l.wide_at >= 0 /\ l.wide_at < k /\ k < l.wide_at + l.width

\* str::is_char_boundary
IsCharBoundary(l, k) ==
    \/ k = 0
    \/ k = l.len
    \/ k < l.len /\ ~IsContinuation(l, k)

Min(a, b) == IF a <= b THEN a ELSE b

\* Number of characters that the first n bytes hold.
CharsIn(l, n) == Cardinality({k \in 0..(n - 1) : ~IsContinuation(l, k)})

\* &text[..200.min(text.len())] (line 344): the slice, or a panic when the
\* end of the range is inside a character.
PrefixOf(t) ==
    LET n == Min(PrefixLen, t.layout.len)
    IN  IF IsCharBoundary(t.layout, n)
        THEN [panic |-> FALSE, bytes |-> n, chars |-> CharsIn(t.layout, n)]
        ELSE [panic |-> TRUE]

(* ------------------------ deserialization ------------------------------ *)

Ok(x) == [ok |-> TRUE, v |-> x]
Err == [ok |-> FALSE]

DeString(j) == IF j.t = "str" THEN Ok(j.v) ELSE Err
DeU32(j) == IF j.t = "num" THEN Ok(j.v) ELSE Err

\* Option<T>: a missing key and null both read as None.
IsNone(j) == j.t \in {"absent", "null"}
Lift(r) == IF r.ok THEN Ok(Some(r.v)) ELSE Err

DeOptString(j) == IF IsNone(j) THEN Ok(None) ELSE Lift(DeString(j))

\* struct MessageContent (lines 201-207)
DeMessageContent(j) ==
    IF j.t # "obj" THEN Err
    ELSE LET c == DeOptString(j.v.content)
             r == DeOptString(j.v.reasoning)
             rc == DeOptString(j.v.reasoning_content)
         IN  IF c.ok /\ r.ok /\ rc.ok
             THEN Ok([content |-> c.v, reasoning |-> r.v, reasoning_content |-> rc.v])
             ELSE Err

\* struct Choice (lines 196-199)
DeChoice(j) ==
    IF j.t # "obj" THEN Err
    ELSE LET m == IF IsNone(j.v.message) THEN Ok(None) ELSE Lift(DeMessageContent(j.v.message))
         IN  IF m.ok THEN Ok([message |-> m.v]) ELSE Err

\* Vec<Choice>
DeChoices(j) ==
    IF j.t # "arr" THEN Err
    ELSE IF \A i \in 1..Len(j.v) : DeChoice(j.v[i]).ok
         THEN Ok([i \in 1..Len(j.v) |-> DeChoice(j.v[i]).v])
         ELSE Err

\* struct Usage (lines 209-214): every counter is required.
DeUsage(j) ==
    IF j.t # "obj" THEN Err
    ELSE LET p == DeU32(j.v.prompt_tokens)
             c == DeU32(j.v.completion_tokens)
             t == DeU32(j.v.total_tokens)
         IN  IF p.ok /\ c.ok /\ t.ok
             THEN Ok([prompt_tokens |-> p.v, completion_tokens |-> c.v, total_tokens |-> t.v])
             ELSE Err

\* struct ApiError (lines 216-221): `message` is required.
DeApiError(j) ==
    IF j.t # "obj" THEN Err
    ELSE LET m == DeString(j.v.message)
         IN  IF m.ok THEN Ok([message |-> m.v]) ELSE Err

\* struct ChatResponse (lines 189-194)
DeChatResponse(j) ==
    IF j.t # "obj" THEN Err
    ELSE LET ch == IF IsNone(j.v.choices) THEN Ok(None) ELSE Lift(DeChoices(j.v.choices))
             u == IF IsNone(j.v.usage) THEN Ok(None) ELSE Lift(DeUsage(j.v.usage))
             e == IF IsNone(j.v.error) THEN Ok(None) ELSE Lift(DeApiError(j.v.error))
         IN  IF ch.ok /\ u.ok /\ e.ok
             THEN Ok([choices |-> ch.v, usage |-> u.v, error |-> e.v])
             ELSE Err

\* serde_json::from_str::<ChatResponse> (line 341)
FromStr(t) == IF t.doc = Malformed THEN Err ELSE DeChatResponse(t.doc)

(* ----------------------------- output ---------------------------------- *)

Notice(k) == [kind |-> k]
NoKeyGuidance == Notice("no_key")            \* line 239
Researching == Notice("researching")         \* line 258
StillWorking == Notice("still_working")      \* line 303
Connected == Notice("connected")             \* line 317
NoContentWarning == Notice("no_content")     \* line 366
NoChoicesWarning == Notice("no_choices")     \* line 371
ElapsedOnly == Notice("elapsed")             \* line 382
PanicMessage == Notice("panic")              \* the panic hook's message
ReasoningTrace(r) == [kind |-> "reasoning", text |-> r]                \* line 358
UsageLine(u) == [kind |-> "usage", prompt |-> u.prompt_tokens,
                 completion |-> u.completion_tokens, total |-> u.total_tokens]  \* line 377
\* "Error: ..." as the runtime prints the Err that `main` returns.
ErrorReport(e) == [kind |-> "error", error |-> e]

\* println!("{}", content) (line 364): the content and one newline.
Println(s) == [text |-> s, newline |-> TRUE]

(* ----------------------------- errors ---------------------------------- *)

Failure(k) == [kind |-> k]
NoQuery == Failure("no_query")                    \* lines 249-253
StdinUnreadable == Failure("stdin_read")          \* line 246
ClientBuildFailed == Failure("client_build")      \* line 264
ConnectionFailed == Failure("connection_failed")  \* line 315
ConnectionLost == Failure("connection_lost")      \* line 320
ParseFailure(prefix) ==
    [kind |-> "parse", bytes |-> prefix.bytes, chars |-> prefix.chars]   \* lines 342-345
ApiErrorEnvelope(m) == [kind |-> "api_error", message |-> m]             \* line 348

\* StatusError with the 402 arm missing.
StatusErrorNoCredits(s, t) ==
    IF s = 401 THEN Failure("auth")
    ELSE IF s = 429 THEN Failure("rate_limit")
    ELSE [kind |-> "api_status", status |-> s, body |-> t]

\* Lines 325-338: the diagnostic of a non-success status.
StatusError(s, t) ==
    IF s = 401 THEN Failure("auth")
    ELSE IF s = 402 THEN Failure("credits")
    ELSE IF s = 429 THEN Failure("rate_limit")
    ELSE [kind |-> "api_status", status |-> s, body |-> t]

(* ------------------------------ Init ----------------------------------- *)

NoText == [unread |-> TRUE]
NotParsed == [unparsed |-> TRUE]
NoError == Failure("none")

Init ==
    /\ environ \in Environments
    /\ pc = "start"
    /\ args = Consumed
    /\ api_key = None
    /\ query = <<>>
    /\ posted = <<>>
    /\ status = None
    /\ text = NoText
    /\ response = NotParsed
    /\ err = NoError
    /\ timer = "unspawned"
    /\ stdout = <<>>
    /\ stderr = <<>>
    /\ exit_code = -1

\* std::process::exit and the end of the process: every task stops with it.
Killed(t) == IF t = "unspawned" THEN t ELSE "dead"

(* ------------------------ configuration -------------------------------- *)

\* Lines 226-241: dotenv load, Args::parse(), and the API key or exit(1).
ParseArgs ==
    /\ pc = "start"
    /\ environ' = Consumed
    /\ IF ParsedApiKey(environ).some
       THEN /\ api_key' = ParsedApiKey(environ)
            /\ args' = [stdin |-> environ.stdin, query |-> environ.query]
            /\ pc' = "build_query"
            /\ UNCHANGED <<stderr, exit_code>>
       ELSE /\ stderr' = Append(stderr, NoKeyGuidance)
            /\ exit_code' = 1
            /\ pc' = "exited"
            /\ UNCHANGED <<api_key, args>>
    /\ UNCHANGED <<query, posted, status, text, response, err, timer, stdout>>

\* Lines 244-256: the query text, from stdin or from the positional tokens.
QueryFrom(a, input) ==
    IF a.stdin
    THEN IF input.some THEN Ok(Trim(input.v)) ELSE [ok |-> FALSE, e |-> StdinUnreadable]
    ELSE IF a.query = <<>> THEN [ok |-> FALSE, e |-> NoQuery]
    ELSE Ok(Join(a.query))

BuildQuery ==
    /\ pc = "build_query"
    /\ \E input \in StdinInputs :
         LET q == QueryFrom(args, input)
         IN  IF q.ok
             THEN /\ query' = q.v
                  /\ pc' = "prepare"
                  /\ err' = err
             ELSE /\ err' = q.e
                  /\ pc' = "returning"
                  /\ query' = query
    /\ args' = Consumed
    /\ UNCHANGED <<environ, api_key, posted, status, text, response, timer,
                   stdout, stderr, exit_code>>

(* ---------------------- request and transport -------------------------- *)

SystemPrompt == "persona"

\* Lines 266-292 and 307-312: the request that is posted.
ChatRequest(key, q) ==
    [ authorization |-> key,
      messages |-> << [role |-> "system", content |-> SystemPrompt],
                      [role |-> "user", content |-> q] >> ]

\* Lines 258-305: the "researching" notice, the client, the request body and
\* the spawn of the ticker.
Prepare ==
    /\ pc = "prepare"
    /\ stderr' = Append(stderr, Researching)
    /\ timer' = "sleeping"
    /\ pc' = "send"
    /\ UNCHANGED <<environ, args, api_key, query, posted, status, text, response,
                   err, stdout, exit_code>>

\* Line 264: Client::build() fails.
ClientBuildFail ==
    /\ pc = "prepare"
    /\ stderr' = Append(stderr, Researching)
    /\ err' = ClientBuildFailed
    /\ pc' = "returning"
    /\ UNCHANGED <<environ, args, api_key, query, posted, status, text, response,
                   timer, stdout, exit_code>>

\* Lines 307-315 and 319: send() resolves with a response head.
SendOk ==
    /\ pc = "send"
    /\ posted' = Append(posted, ChatRequest(api_key.v, query))
    /\ \E s \in Statuses : status' = Some(s)
    /\ pc' = "connected"
    /\ UNCHANGED <<environ, args, api_key, query, text, response, err, timer,
                   stdout, stderr, exit_code>>

\* Lines 307-315: send() resolves with an error.
SendFail ==
    /\ pc = "send"
    /\ posted' = Append(posted, ChatRequest(api_key.v, query))
    /\ err' = ConnectionFailed
    /\ pc' = "returning"
    /\ UNCHANGED <<environ, args, api_key, query, status, text, response, timer,
                   stdout, stderr, exit_code>>

\* Line 317
PrintConnected ==
    /\ pc = "connected"
    /\ stderr' = Append(stderr, Connected)
    /\ pc' = "read_body"
    /\ UNCHANGED <<environ, args, api_key, query, posted, status, text, response,
                   err, timer, stdout, exit_code>>

\* Line 320: the body arrives.
ReadBodyOk ==
    /\ pc = "read_body"
    /\ \E t \in Bodies : text' = t
    /\ pc' = "abort"
    /\ UNCHANGED <<environ, args, api_key, query, posted, status, response, err,
                   timer, stdout, stderr, exit_code>>

\* Line 320: the connection is lost while the body is read.
ReadBodyFail ==
    /\ pc = "read_body"
    /\ err' = ConnectionLost
    /\ pc' = "returning"
    /\ UNCHANGED <<environ, args, api_key, query, posted, status, text, response,
                   timer, stdout, stderr, exit_code>>

(* ----------------------------- ticker ---------------------------------- *)

TicksPrinted == Cardinality({i \in 1..Len(stderr) : stderr[i] = StillWorking})

\* JoinHandle::abort and the runtime's shutdown: a task parked at an await is
\* dropped there; a task that is running is dropped at its next await.
Cancelled(t) ==
    IF t = "sleeping" THEN "cancelled"
    ELSE IF t = "printing" THEN "printing_last"
    ELSE t

\* Line 301: interval.tick() resolves in the ticker task.
TimerWake ==
    /\ timer = "sleeping"
    /\ TicksPrinted < MaxTicks
    /\ timer' = "printing"
    /\ UNCHANGED <<environ, pc, args, api_key, query, posted, status, text,
                   response, err, stdout, stderr, exit_code>>

\* Lines 302-303, and back to the await of line 301.
TimerPrint ==
    /\ timer \in {"printing", "printing_last"}
    /\ stderr' = Append(stderr, StillWorking)
    /\ timer' = IF timer = "printing" THEN "sleeping" ELSE "cancelled"
    /\ UNCHANGED <<environ, pc, args, api_key, query, posted, status, text,
                   response, err, stdout, exit_code>>

\* Line 322
Abort ==
    /\ pc = "abort"
    /\ timer' = Cancelled(timer)
    /\ pc' = "check_status"
    /\ UNCHANGED <<environ, args, api_key, query, posted, status, text, response,
                   err, stdout, stderr, exit_code>>

(* ------------------- response interpretation --------------------------- *)

\* Lines 324-339
CheckStatus ==
    /\ pc = "check_status"
    /\ IF IsSuccess(status.v)
       THEN /\ pc' = "parse"
            /\ err' = err
       ELSE /\ err' = StatusError(status.v, text)
            /\ pc' = "returning"
    /\ UNCHANGED <<environ, args, api_key, query, posted, status, text, response,
                   timer, stdout, stderr, exit_code>>

\* Lines 341-345.  The argument of .context(...) is built before the result
\* of from_str is looked at, so the slice of line 344 is taken for every body.
Parse ==
    /\ pc = "parse"
    /\ LET prefix == PrefixOf(text)
           parsed == FromStr(text)
       IN  IF prefix.panic
           THEN /\ stderr' = Append(stderr, PanicMessage)
                /\ pc' = "unwinding"
                /\ UNCHANGED <<response, err>>
           ELSE IF parsed.ok
           THEN /\ response' = parsed.v
                /\ pc' = "check_error"
                /\ UNCHANGED <<stderr, err>>
           ELSE /\ err' = ParseFailure(prefix)
                /\ pc' = "returning"
                /\ UNCHANGED <<response, stderr>>
    /\ UNCHANGED <<environ, args, api_key, query, posted, status, text, timer,
                   stdout, exit_code>>

\* Lines 347-349
CheckError ==
    /\ pc = "check_error"
    /\ IF response.error.some
       THEN /\ err' = ApiErrorEnvelope(response.error.v.message)
            /\ pc' = "returning"
       ELSE /\ pc' = "emit"
            /\ err' = err
    /\ UNCHANGED <<environ, args, api_key, query, posted, status, text, response,
                   timer, stdout, stderr, exit_code>>

\* Line 355: the reasoning field that is read.
ReasoningOf(msg) == OptionOr(msg.reasoning, msg.reasoning_content)

\* Lines 351-353: the message of the first choice, if there is one.
FirstMessage(resp) ==
    IF resp.choices.some /\ Len(resp.choices.v) > 0
    THEN resp.choices.v[1].message
    ELSE None

\* Lines 355-360 and 370-372: what reaches stderr before the answer.
TraceNotices(resp) ==
    IF ~resp.choices.some THEN <<NoChoicesWarning>>
    ELSE IF ~FirstMessage(resp).some THEN <<>>
    ELSE LET r == ReasoningOf(FirstMessage(resp).v)
         IN  IF r.some /\ r.v # "" THEN <<ReasoningTrace(r.v)>> ELSE <<>>

\* AnswerWrites with println!("{}", content.unwrap_or_default()).
AnswerWritesOrBlank(msg) ==
    IF msg.content.some THEN <<Println(msg.content.v)>> ELSE <<Println("")>>

\* Lines 363-364: what reaches stdout.
AnswerWrites(msg) == IF msg.content.some THEN <<Println(msg.content.v)>> ELSE <<>>

\* Lines 365-367: what reaches stderr in place of the answer.
AnswerNotices(msg) == IF msg.content.some THEN <<>> ELSE <<NoContentWarning>>

\* Lines 351-360, 370-372
EmitTrace ==
    /\ pc = "emit"
    /\ stderr' = stderr \o TraceNotices(response)
    /\ pc' = IF FirstMessage(response).some THEN "answer" ELSE "usage"
    /\ UNCHANGED <<environ, args, api_key, query, posted, status, text, response,
                   err, timer, stdout, exit_code>>

\* Lines 362-367
EmitAnswer ==
    /\ pc = "answer"
    /\ stdout' = stdout \o AnswerWrites(FirstMessage(response).v)
    /\ stderr' = stderr \o AnswerNotices(FirstMessage(response).v)
    /\ pc' = "usage"
    /\ UNCHANGED <<environ, args, api_key, query, posted, status, text, response,
                   err, timer, exit_code>>

\* Lines 375-383: what reaches stderr after the answer.
UsageNotice(resp) == IF resp.usage.some THEN UsageLine(resp.usage.v) ELSE ElapsedOnly

\* Lines 375-383
PrintUsage ==
    /\ pc = "usage"
    /\ stderr' = Append(stderr, UsageNotice(response))
    /\ pc' = "exit"
    /\ UNCHANGED <<environ, args, api_key, query, posted, status, text, response,
                   err, timer, stdout, exit_code>>

\* Line 386
Exit0 ==
    /\ pc = "exit"
    /\ exit_code' = 0
    /\ timer' = Killed(timer)
    /\ pc' = "exited"
    /\ UNCHANGED <<environ, args, api_key, query, posted, status, text, response,
                   err, stdout, stderr>>

(* ------------------------- leaving `main` ------------------------------ *)

\* Lines 223-224: `main` resolves with Err, block_on returns and the runtime is
\* dropped, which shuts its tasks down.
ReturnErr ==
    /\ pc = "returning"
    /\ timer' = Cancelled(timer)
    /\ pc' = "dropping"
    /\ UNCHANGED <<environ, args, api_key, query, posted, status, text, response,
                   err, stdout, stderr, exit_code>>

\* Lines 223-224: the drop of the runtime has joined its worker threads; the
\* Err is reported on stderr and the process exits with status 1.
ReportErr ==
    /\ pc = "dropping"
    /\ timer \notin {"printing", "printing_last"}
    /\ stderr' = Append(stderr, ErrorReport(err))
    /\ exit_code' = 1
    /\ timer' = Killed(timer)
    /\ pc' = "exited"
    /\ UNCHANGED <<environ, args, api_key, query, posted, status, text, response,
                   err, stdout>>

\* Line 344: the panic unwinds `main`, dropping the runtime on the way, and the
\* process exits with status 101.
Unwind ==
    /\ pc = "unwinding"
    /\ timer \notin {"printing", "printing_last"}
    /\ exit_code' = 101
    /\ timer' = Killed(timer)
    /\ pc' = "exited"
    /\ UNCHANGED <<environ, args, api_key, query, posted, status, text, response,
                   err, stdout, stderr>>

(* --------------------------- specification ----------------------------- *)

Next ==
    \/ ParseArgs
    \/ BuildQuery
    \/ Prepare
    \/ ClientBuildFail
    \/ SendOk
    \/ SendFail
    \/ PrintConnected
    \/ ReadBodyOk
    \/ ReadBodyFail
    \/ TimerWake
    \/ TimerPrint
    \/ Abort
    \/ CheckStatus
    \/ Parse
    \/ CheckError
    \/ EmitTrace
    \/ EmitAnswer
    \/ PrintUsage
    \/ Exit0
    \/ ReturnErr
    \/ ReportErr
    \/ Unwind

Spec == Init /\ [][Next]_vars

TypeOK ==
    /\ pc \in {"start", "build_query", "prepare", "send", "connected", "read_body",
               "abort", "check_status", "parse", "check_error", "emit", "answer",
               "usage", "exit", "returning", "dropping", "unwinding", "exited"}
    /\ timer \in {"unspawned", "sleeping", "printing", "printing_last", "cancelled", "dead"}
    /\ exit_code \in {-1, 0, 1, 101}
    /\ (pc = "exited") = (exit_code # -1)

(* ------------------------------ claims --------------------------------- *)
(* The claims read the body as the server sent it (the J* values), not the *)
(* deserialized `response`.                                                *)

Last(q) == q[Len(q)]
Exited == pc = "exited"
SuccessStatus == status.some /\ IsSuccess(status.v)
BodyReceived == text # NoText

\* The body is JSON of the ChatResponse shape.
WellFormed == BodyReceived /\ FromStr(text).ok
\* ... and carries no error object.
NoErrorField == WellFormed /\ text.doc.v.error \in {Absent, Null}

WireChoices == text.doc.v.choices
HasFirstChoice == WireChoices.t = "arr" /\ Len(WireChoices.v) > 0
WireFirstMessage == WireChoices.v[1].v.message
WireFirstContent ==
    IF WireFirstMessage.t = "obj" THEN WireFirstMessage.v.content ELSE Absent

IsText(j) == j.t = "str"
NonEmptyText(j) == j.t = "str" /\ j.v # ""

\* The HTTP call is over: the body has been read, or send() or the read of the
\* body has failed.
CallFinished == BodyReceived \/ err \in {ConnectionFailed, ConnectionLost}

\* C1: once the HTTP call has returned or failed, the ticker writes no further
\* "still working" notice.
C1_NoTickAfterCall ==
    [][CallFinished => stderr' # Append(stderr, StillWorking)]_vars

\* C2: every request that is posted carries a user message that is non-empty
\* after trimming.
C2_PostedQueryNonEmpty ==
    \A i \in 1..Len(posted) : Trim(posted[i].messages[2].content) # <<>>

\* C3: stdout is empty, or holds exactly one write: the first choice's content
\* and a newline; it is empty in every run that exits non-zero and in every
\* run whose body has no choices or no content.
C3_StdoutOnlyAnswer ==
    /\ Len(stdout) <= 1
    /\ stdout # <<>> =>
         /\ SuccessStatus /\ NoErrorField /\ HasFirstChoice
         /\ IsText(WireFirstContent)
         /\ stdout = <<[text |-> WireFirstContent.v, newline |-> TRUE]>>
    /\ (Exited /\ exit_code # 0) => stdout = <<>>
    /\ (Exited /\ WellFormed /\ (~HasFirstChoice \/ ~IsText(WireFirstContent)))
         => stdout = <<>>

C3_Witness ==
    /\ Exited /\ exit_code = 0
    /\ stdout = <<[text |-> "Paris", newline |-> TRUE]>>
    /\ \E i \in 1..Len(stderr) : stderr[i].kind = "reasoning"
    /\ \E i \in 1..Len(stderr) : stderr[i].kind = "still_working"
    /\ Last(stderr).kind = "usage"

\* C4: the exit status is 0 for every success-status body of the ChatResponse
\* shape without an error field, and non-zero for every failure.
C4_ExitStatus ==
    Exited =>
      /\ (SuccessStatus /\ NoErrorField) => exit_code = 0
      /\ (err # NoError \/ ~api_key.some) => exit_code # 0

\* The first dotenv file that exists, ./.env before ~/.env.
FirstDotenv == IF environ.cwd_env.exists THEN environ.cwd_env ELSE environ.home_env
NoKeyResolvable ==
    /\ ~environ.flag_key.some
    /\ ~environ.env_key.some
    /\ ~(FirstDotenv.exists /\ FirstDotenv.key.some)

\* C5: with no API key from the flag, the environment or the dotenv file, the
\* process prints the guidance and exits 1 at once, and no request is ever
\* posted; a posted request carries the resolved key.
C5_NoKeyNoRequest ==
    /\ [][(pc = "start" /\ NoKeyResolvable) =>
            /\ pc' = "exited"
            /\ exit_code' = 1
            /\ stderr' = <<NoKeyGuidance>>
            /\ posted' = <<>>]_vars
    /\ [](~api_key.some => posted = <<>>)
    /\ [](\A i \in 1..Len(posted) : posted[i].authorization = api_key.v)
    /\ [][pc = "exited" => posted' = posted]_vars

C5_Witness ==
    /\ Exited /\ exit_code = 1
    /\ ~api_key.some
    /\ stderr = <<NoKeyGuidance>>
    /\ posted = <<>>

\* C6: a non-2xx status ends the run with exit status 1 and nothing on stdout;
\* once its body has arrived the diagnostic is chosen by the status code: 401
\* authentication, 402 credits, 429 rate limit, any other the status and the
\* body text; the body is never parsed.
C6_StatusDiagnostic ==
    (status.some /\ ~IsSuccess(status.v)) =>
      /\ response = NotParsed
      /\ pc \notin {"parse", "check_error", "emit", "answer", "usage", "exit", "unwinding"}
      /\ Exited => (exit_code = 1 /\ stdout = <<>>)
      /\ (Exited /\ BodyReceived) =>
           /\ Last(stderr).kind = "error"
           /\ status.v = 401 => Last(stderr).error = [kind |-> "auth"]
           /\ status.v = 402 => Last(stderr).error = [kind |-> "credits"]
           /\ status.v = 429 => Last(stderr).error = [kind |-> "rate_limit"]
           /\ status.v \notin {401, 402, 429} =>
                Last(stderr).error = [kind |-> "api_status", status |-> status.v, body |-> text]

C6_Witness ==
    /\ Exited /\ exit_code = 1
    /\ status = Some(402)
    /\ BodyReceived /\ text.doc = ParisDoc
    /\ Last(stderr) = ErrorReport([kind |-> "credits"])

\* C7: a success-status body without an error field whose first choice has no
\* content (content missing or null, or no message) gives exit status 0, the
\* "no content" warning on stderr and nothing on stdout.
C7_NoContentWarned ==
    (Exited /\ SuccessStatus /\ NoErrorField /\ HasFirstChoice /\ ~IsText(WireFirstContent)) =>
      /\ exit_code = 0
      /\ \E i \in 1..Len(stderr) : stderr[i] = NoContentWarning
      /\ stdout = <<>>

\* C8: a success-status body without an error field whose choices are missing,
\* null or empty gives the "no choices" warning, not the "no content" one, and
\* exit status 0.
C8_NoChoicesWarned ==
    (Exited /\ SuccessStatus /\ NoErrorField /\ ~HasFirstChoice) =>
      /\ exit_code = 0
      /\ \E i \in 1..Len(stderr) : stderr[i] = NoChoicesWarning
      /\ \A i \in 1..Len(stderr) : stderr[i] # NoContentWarning

IsTrace(n) == n.kind = "reasoning"
\* The first non-empty of `reasoning` and `reasoning_content`, as a list.
FirstNonEmptyReasoning(m) ==
    IF NonEmptyText(m.reasoning) THEN <<ReasoningTrace(m.reasoning.v)>>
    ELSE IF NonEmptyText(m.reasoning_content) THEN <<ReasoningTrace(m.reasoning_content.v)>>
    ELSE <<>>

\* C9: from the point where the answer is about to be written, stderr holds as
\* its reasoning trace exactly the first non-empty of `reasoning` and
\* `reasoning_content`, and none when both are missing or empty.
C9_FirstNonEmptyReasoning ==
    ( /\ pc \in {"answer", "usage", "exit"} \/ (Exited /\ exit_code = 0 /\ BodyReceived)
      /\ HasFirstChoice
      /\ WireFirstMessage.t = "obj" ) =>
         SelectSeq(stderr, IsTrace) = FirstNonEmptyReasoning(WireFirstMessage.v)

\* Number of characters of the body.
CharCount(l) == CharsIn(l, l.len)

\* C10: a success-status body that is not well-formed JSON ends the run with
\* exit status 1 and a parse-failure diagnostic quoting its first 200
\* characters (all of it when shorter); a body that parses never panics.
C10_ParseFailurePrefix ==
    (Exited /\ SuccessStatus /\ BodyReceived) =>
      /\ exit_code # 101
      /\ ~FromStr(text).ok =>
           /\ exit_code = 1
           /\ Last(stderr).kind = "error"
           /\ Last(stderr).error.kind = "parse"
           /\ Last(stderr).error.chars = Min(PrefixLen, CharCount(text.layout))

====
